---- MODULE Spec2Model ----
(***************************************************************************)
(* Model of pheval.phen2gene: the execution dispatcher                     *)
(* (src/pheval_phen2gene/run/run.py) and the result standardisation        *)
(* (src/pheval_phen2gene/post_process/post_process_results_format.py).     *)
(*                                                                         *)
(* Spec     : one call of run_phen2gene, step by step.                     *)
(* SpecPost : one call of create_standardised_results, step by step.       *)
(***************************************************************************)
EXTENDS Integers, Sequences, FiniteSets, TLC

(* ------------------------------ bounds -------------------------------- *)
\* longest sample / corpus identifier, in characters
MaxIdLen == 2
\* most batch files in tool_input_commands_dir
MaxFiles == 2
\* most command lines in one batch file
MaxCmds == 2
\* most log lines one container writes
MaxLines == 1
\* most result tables in results_dir
MaxTables == 2
\* most rows in one result table
MaxRows == 2

(* ------------------------- names and files ---------------------------- *)
\* characters an identifier is made of
Alphabet == {"a", "b"}

\* what prepare_commands appends to the identifier to name the batch file
Suffix == <<".sh">>

\* the sample / corpus identifiers: non-empty strings over Alphabet
SampleIds == UNION {[1..n -> Alphabet] : n \in 1..MaxIdLen}

\* the batch file written for the sample p
BatchName(p) == p \o Suffix

\* str.startswith
startswith(name, p) == Len(p) <= Len(name) /\ SubSeq(name, 1, Len(p)) = p

\* "no file": batch_file before it is assigned
NoFile == <<>>

\* what all_files(tool_input_commands_dir) can return: the batch files of
\* some samples, each once, in the order the library lists them
Listings ==
    {s \in UNION {[1..n -> {BatchName(p) : p \in SampleIds}] : n \in 0..MaxFiles} :
        \A i, j \in 1..Len(s) : i # j => s[i] # s[j]}

\* values of config.run.environment
Environments == {"docker", "local", "other"}

(* ------------------------------ state --------------------------------- *)
VARIABLES
    pc,             \* position in run_phen2gene and the function it calls
    environment,    \* config.run.environment
    prefix,         \* Path(testdata_dir).name / os.path.basename(testdata_dir)
    directory,      \* all_files(tool_input_commands_dir)
    called,         \* which of run_phen2gene_docker / _local were entered
    batch_file,     \* the selected batch file
    batch_commands, \* read_docker_batch(batch_file)
    touched,        \* batch files opened for reading or handed to bash
    procs,          \* local subprocesses attempted, in order
    containers,     \* containers started, in order
    cmd_i,          \* index of `command` in the for loop of run_phen2gene_docker
    lines_left,     \* log lines the current container has still to write
    printed,        \* log lines printed so far
    error,          \* the exception that left run_phen2gene, or "none"
    ppc,            \* position in create_standardised_results
    tables,         \* the Score columns of the files of results_dir, as text
    file_i,         \* index of `result` in the for loop over all_files
    frame,          \* phen2gene_tsv_result["Score"] as parsed by read_csv
    row_i,          \* index of `row` in iterrows()
    simplified,     \* simplified_phen2gene_result
    ranked,         \* pheval_gene_result returned by create_pheval_result
    written,        \* what write_pheval_gene_result was given, in order
    perror          \* the exception that left create_standardised_results

runVars == <<pc, environment, prefix, directory, called, batch_file,
             batch_commands, touched, procs, containers, cmd_i, lines_left,
             printed, error>>

postVars == <<ppc, tables, file_i, frame, row_i, simplified, ranked, written,
              perror>>

vars == <<pc, environment, prefix, directory, called, batch_file,
          batch_commands, touched, procs, containers, cmd_i, lines_left,
          printed, error, ppc, tables, file_i, frame, row_i, simplified,
          ranked, written, perror>>

(* --------------------------- run_phen2gene ---------------------------- *)
\* the list comprehension over all_files: the files whose name starts
\* with the identifier, in listing order
Matching(dir, p) == SelectSeq(dir, LAMBDA f : startswith(f, p))

\* a slip in the lookup: only an empty directory is treated as "not found"
LocateRaisesOnEmptyDir(dir, p) == dir = <<>>

\* [...][0] raises IndexError on an empty list
LocateRaises(dir, p) == Matching(dir, p) = <<>>

\* [...][0]
FirstMatch(dir, p) ==
    IF Matching(dir, p) = <<>> THEN NoFile ELSE Head(Matching(dir, p))

\* `if config.run.environment == "docker":`
DockerSelected(env) == env = "docker"

\* a slip in the mode selection: the second test written as an `else:`
LocalSelectedAsElse(env) == env # "docker"

\* `if config.run.environment == "local":`
LocalSelected(env) == env = "local"

RunIdle ==
    /\ called = {}
    /\ batch_file = NoFile
    /\ batch_commands = <<>>
    /\ touched = {}
    /\ procs = <<>>
    /\ containers = <<>>
    /\ cmd_i = 0
    /\ lines_left = 0
    /\ printed = 0
    /\ error = "none"

PostIdle ==
    /\ ppc = "idle"
    /\ tables = <<>>
    /\ file_i = 0
    /\ frame = <<>>
    /\ row_i = 0
    /\ simplified = <<>>
    /\ ranked = <<>>
    /\ written = <<>>
    /\ perror = "none"

Init ==
    /\ pc = "check_docker"
    /\ environment \in Environments
    /\ prefix \in SampleIds
    /\ directory \in Listings
    /\ RunIdle
    /\ PostIdle

\* an exception leaves run_phen2gene
Raise(e) == pc' = "Failed" /\ error' = e

\* run_phen2gene, first `if`
run_phen2gene_check_docker ==
    /\ pc = "check_docker"
    /\ IF DockerSelected(environment)
          THEN /\ pc' = "d_from_env"
               /\ called' = called \cup {"run_phen2gene_docker"}
          ELSE /\ pc' = "check_local"
               /\ UNCHANGED called
    /\ UNCHANGED <<environment, prefix, directory, batch_file, batch_commands,
                   touched, procs, containers, cmd_i, lines_left, printed,
                   error>>
    /\ UNCHANGED postVars

\* run_phen2gene, second `if` (reached also after run_phen2gene_docker returns)
run_phen2gene_check_local ==
    /\ pc = "check_local"
    /\ IF LocalSelected(environment)
          THEN /\ pc' = "l_locate"
               /\ called' = called \cup {"run_phen2gene_local"}
          ELSE /\ pc' = "Done"
               /\ UNCHANGED called
    /\ UNCHANGED <<environment, prefix, directory, batch_file, batch_commands,
                   touched, procs, containers, cmd_i, lines_left, printed,
                   error>>
    /\ UNCHANGED postVars

(* ------------------------- run_phen2gene_local ------------------------ *)
\* batch_file = [...][0]
local_locate ==
    /\ pc = "l_locate"
    /\ IF LocateRaises(directory, prefix)
          THEN /\ Raise("IndexError")
               /\ UNCHANGED batch_file
          ELSE /\ batch_file' = FirstMatch(directory, prefix)
               /\ pc' = "l_activate"
               /\ UNCHANGED error
    /\ UNCHANGED <<environment, prefix, directory, called, batch_commands,
                   touched, procs, containers, cmd_i, lines_left, printed>>
    /\ UNCHANGED postVars

\* what subprocess.run(argv, shell=False) can do: the child exits 0, the
\* child exits nonzero (no check=True: both return normally), or the
\* executable cannot be started and OSError is raised
SubprocessOutcomes == {"zero", "nonzero", "not_started"}

\* subprocess.run(["activate", "phen2gene"], shell=False) and the two prints
local_activate ==
    /\ pc = "l_activate"
    /\ \E o \in SubprocessOutcomes :
          /\ procs' = Append(procs, [argv |-> "activate", file |-> NoFile,
                                     outcome |-> o])
          /\ IF o = "not_started"
                THEN Raise("OSError")
                ELSE pc' = "l_bash" /\ UNCHANGED error
    /\ UNCHANGED <<environment, prefix, directory, called, batch_file,
                   batch_commands, touched, containers, cmd_i, lines_left,
                   printed>>
    /\ UNCHANGED postVars

\* subprocess.run(["bash", str(batch_file)], shell=False), then return
local_bash ==
    /\ pc = "l_bash"
    /\ \E o \in SubprocessOutcomes :
          /\ procs' = Append(procs, [argv |-> "bash", file |-> batch_file,
                                     outcome |-> o])
          /\ touched' = IF o = "not_started" THEN touched
                        ELSE touched \cup {batch_file}
          /\ IF o = "not_started"
                THEN Raise("OSError")
                ELSE pc' = "Done" /\ UNCHANGED error
    /\ UNCHANGED <<environment, prefix, directory, called, batch_file,
                   batch_commands, containers, cmd_i, lines_left, printed>>
    /\ UNCHANGED postVars

(* ------------------------ run_phen2gene_docker ------------------------ *)
\* client = docker.from_env(): raises when the daemon cannot be reached
docker_from_env ==
    /\ pc = "d_from_env"
    /\ \/ pc' = "d_locate" /\ UNCHANGED error
       \/ Raise("DockerException")
    /\ UNCHANGED <<environment, prefix, directory, called, batch_file,
                   batch_commands, touched, procs, containers, cmd_i,
                   lines_left, printed>>
    /\ UNCHANGED postVars

\* batch_file = [...][0]
docker_locate ==
    /\ pc = "d_locate"
    /\ IF LocateRaises(directory, prefix)
          THEN /\ Raise("IndexError")
               /\ UNCHANGED batch_file
          ELSE /\ batch_file' = FirstMatch(directory, prefix)
               /\ pc' = "d_read"
               /\ UNCHANGED error
    /\ UNCHANGED <<environment, prefix, directory, called, batch_commands,
                   touched, procs, containers, cmd_i, lines_left, printed>>
    /\ UNCHANGED postVars

\* read_docker_batch: batch.readlines(), one command per line; the batch
\* file holds n lines, command k being <<batch_file, k>>
read_docker_batch ==
    /\ pc = "d_read"
    /\ \E n \in 0..MaxCmds :
          batch_commands' = [k \in 1..n |-> <<batch_file, k>>]
    /\ touched' = touched \cup {batch_file}
    /\ pc' = "d_mount"
    /\ UNCHANGED <<environment, prefix, directory, called, batch_file, procs,
                   containers, cmd_i, lines_left, printed, error>>
    /\ UNCHANGED postVars

\* mount_docker and vol = [...]; the loop starts at the first command
mount_docker ==
    /\ pc = "d_mount"
    /\ cmd_i' = 1
    /\ pc' = "d_loop"
    /\ UNCHANGED <<environment, prefix, directory, called, batch_file,
                   batch_commands, touched, procs, containers, lines_left,
                   printed, error>>
    /\ UNCHANGED postVars

\* `for command in batch_commands:` and client.containers.run(..., detach=True)
docker_loop ==
    /\ pc = "d_loop"
    /\ IF cmd_i > Len(batch_commands)
          THEN /\ pc' = "check_local"
               /\ UNCHANGED <<containers, lines_left, error>>
          ELSE \/ /\ \E n \in 0..MaxLines : lines_left' = n
                  /\ containers' = Append(containers,
                        [command |-> batch_commands[cmd_i],
                         status |-> "running", exit |-> 0, removed |-> FALSE])
                  /\ pc' = "d_stream"
                  /\ UNCHANGED error
               \/ /\ Raise("DockerException")
                  /\ UNCHANGED <<containers, lines_left>>
    /\ UNCHANGED <<environment, prefix, directory, called, batch_file,
                   batch_commands, touched, procs, cmd_i, printed>>
    /\ UNCHANGED postVars

\* `for line in container.logs(stream=True): print(line.strip())`: a line is
\* printed, or the stream closes because the container has exited (with any
\* exit status, which is not read), or reading the stream raises
docker_stream ==
    /\ pc = "d_stream"
    /\ \/ /\ lines_left > 0
          /\ lines_left' = lines_left - 1
          /\ printed' = printed + 1
          /\ UNCHANGED <<pc, containers, error>>
       \/ /\ lines_left = 0
          /\ \E code \in {0, 1} :
                containers' = [containers EXCEPT
                    ![Len(containers)] = [@ EXCEPT !.status = "exited",
                                                   !.exit = code]]
          /\ pc' = "d_break"
          /\ UNCHANGED <<lines_left, printed, error>>
       \/ /\ Raise("StreamError")
          /\ UNCHANGED <<lines_left, printed, containers>>
    /\ UNCHANGED <<environment, prefix, directory, called, batch_file,
                   batch_commands, touched, procs, cmd_i>>
    /\ UNCHANGED postVars

\* `break`: the loop is left after its first iteration and the function returns
docker_break ==
    /\ pc = "d_break"
    /\ pc' = "check_local"
    /\ UNCHANGED <<environment, prefix, directory, called, batch_file,
                   batch_commands, touched, procs, containers, cmd_i,
                   lines_left, printed, error>>
    /\ UNCHANGED postVars

Next ==
    \/ run_phen2gene_check_docker
    \/ run_phen2gene_check_local
    \/ local_locate
    \/ local_activate
    \/ local_bash
    \/ docker_from_env
    \/ docker_locate
    \/ read_docker_batch
    \/ mount_docker
    \/ docker_loop
    \/ docker_stream
    \/ docker_break

Spec == Init /\ [][Next]_vars

(* -------------------- create_standardised_results --------------------- *)
\* a Score cell of a result file, as text: a number ("0.5"), one of the
\* missing-value tokens of read_csv ("", "NA", "NaN", "null", ...), or any
\* other text ("high")
CellKinds == {"num", "na", "text"}

NonNumeric(cell) == cell # "num"

\* the Score columns a result file can hold
Columns == UNION {[1..n -> CellKinds] : n \in 0..MaxRows}

\* what all_files(results_dir) can hold
ResultDirs == UNION {[1..n -> Columns] : n \in 0..MaxTables}

\* read_phen2gene_result: pd.read_csv(..., delimiter="\t") with its default
\* na_values. A column of numbers and missing-value tokens is parsed as
\* float64, the tokens as NaN; a column with any other text stays an object
\* column whose cells are the strings as written, the tokens still NaN.
read_phen2gene_result(col) ==
    IF \E i \in 1..Len(col) : col[i] = "text"
       THEN [i \in 1..Len(col) |-> IF col[i] = "na" THEN "nan" ELSE "str"]
       ELSE [i \in 1..Len(col) |-> IF col[i] = "na" THEN "nan" ELSE "float"]

\* round(result_entry["Score"], 4) raises TypeError on a str
RoundRaises(v) == v = "str"

\* round(result_entry["Score"], 4): a float stays a float, NaN stays NaN
\* (the model keeps the type of a score, not its digits)
_find_relevant_score(v) == v

InitPost ==
    /\ ppc = "start"
    /\ tables \in ResultDirs
    /\ file_i = 0
    /\ frame = <<>>
    /\ row_i = 0
    /\ simplified = <<>>
    /\ ranked = <<>>
    /\ written = <<>>
    /\ perror = "none"
    /\ pc = "idle"
    /\ environment = "other"
    /\ prefix = <<"a">>
    /\ directory = <<>>
    /\ RunIdle

\* mkdir, create_hgnc_dict(), GeneIdentifierUpdater(...), all_files(results_dir)
create_standardised_results ==
    /\ ppc = "start"
    /\ file_i' = 1
    /\ ppc' = "loop"
    /\ UNCHANGED <<tables, frame, row_i, simplified, ranked, written, perror>>
    /\ UNCHANGED runVars

\* `for result in all_files(results_dir):` and read_phen2gene_result(result)
post_loop ==
    /\ ppc = "loop"
    /\ IF file_i > Len(tables)
          THEN /\ ppc' = "Done"
               /\ UNCHANGED <<frame, row_i, simplified>>
          ELSE /\ frame' = read_phen2gene_result(tables[file_i])
               /\ row_i' = 1
               /\ simplified' = <<>>
               /\ ppc' = "extract"
    /\ UNCHANGED <<tables, file_i, ranked, written, perror>>
    /\ UNCHANGED runVars

\* extract_pheval_gene_requirements: one turn of the iterrows() loop, or the
\* return of the list when the rows are exhausted
extract_pheval_gene_requirements ==
    /\ ppc = "extract"
    /\ IF row_i > Len(frame)
          THEN /\ ppc' = "rank"
               /\ UNCHANGED <<row_i, simplified, perror>>
          ELSE IF RoundRaises(frame[row_i])
                  THEN /\ ppc' = "Failed"
                       /\ perror' = "TypeError"
                       /\ UNCHANGED <<row_i, simplified>>
                  ELSE /\ simplified' = Append(simplified,
                              [row |-> row_i,
                               score |-> _find_relevant_score(frame[row_i])])
                       /\ row_i' = row_i + 1
                       /\ UNCHANGED <<ppc, perror>>
    /\ UNCHANGED <<tables, file_i, frame, ranked, written>>
    /\ UNCHANGED runVars

\* create_pheval_gene_result_from_phen2gene: the extracted list is handed to
\* the harness's create_pheval_result, whose ranking is not part of this
\* repository; the model keeps which records were handed over
create_pheval_gene_result_from_phen2gene ==
    /\ ppc = "rank"
    /\ ranked' = simplified
    /\ ppc' = "write"
    /\ UNCHANGED <<tables, file_i, frame, row_i, simplified, written, perror>>
    /\ UNCHANGED runVars

\* write_pheval_gene_result(pheval_gene_result, output_dir, result)
write_pheval_gene_result ==
    /\ ppc = "write"
    /\ written' = Append(written, [file |-> file_i, records |-> ranked])
    /\ file_i' = file_i + 1
    /\ ppc' = "loop"
    /\ UNCHANGED <<tables, frame, row_i, simplified, ranked, perror>>
    /\ UNCHANGED runVars

NextPost ==
    \/ create_standardised_results
    \/ post_loop
    \/ extract_pheval_gene_requirements
    \/ create_pheval_gene_result_from_phen2gene
    \/ write_pheval_gene_result

SpecPost == InitPost /\ [][NextPost]_vars

(* ============================ properties ============================== *)
Terminated == pc \in {"Done", "Failed"}

\* the commands of the containers started so far, in start order
StartedCommands == [i \in 1..Len(containers) |-> containers[i].command]

\* no file of the directory has a name starting with the identifier
NoMatch == \A i \in 1..Len(directory) : ~startswith(directory[i], prefix)

(* C1: in container mode, when the dispatch of a batch of N >= 1 commands  *)
(* is Done, every one of the N commands has been run as its own container, *)
(* in batch-file order, each container's log stream consumed to the end.   *)
C1_AllCommandsRun ==
    (pc = "Done" /\ "run_phen2gene_docker" \in called
                 /\ Len(batch_commands) >= 1)
        => /\ StartedCommands = batch_commands
           /\ \A i \in 1..Len(containers) : containers[i].status = "exited"

(* C2: in local mode, a batch script that exits nonzero never leaves the   *)
(* call completed normally (Done): the dispatch ends Failed.               *)
C2_BatchFailurePropagates ==
    pc = "Done"
        => ~\E i \in 1..Len(procs) :
                procs[i].argv = "bash" /\ procs[i].outcome = "nonzero"

(* C3: in local mode, when the activation subprocess exits nonzero or      *)
(* cannot be started, the batch script is still executed afterwards.       *)
C3_ActivationFailureNonFatal ==
    (Terminated /\ \E i \in 1..Len(procs) :
                      /\ procs[i].argv = "activate"
                      /\ procs[i].outcome \in {"nonzero", "not_started"})
        => \E i, j \in 1..Len(procs) :
              /\ i < j
              /\ procs[i].argv = "activate"
              /\ procs[j].argv = "bash"

(* C4: dispatching for the identifier P selects the batch file of P and    *)
(* reads or executes no batch file of another sample, whatever the listing *)
(* order and also when another identifier has P as a prefix.               *)
C4_SelectsOwnBatchOnly ==
    /\ batch_file # NoFile => batch_file = BatchName(prefix)
    /\ touched \subseteq {BatchName(prefix)}

(* C5: when no file of the batch directory matches the sample prefix, the  *)
(* dispatch (either mode) never gets past locating the batch file: it ends *)
(* with an error raised to the caller, and no subprocess (activation       *)
(* included) and no container is started and no batch file is opened.      *)
C5_NoBatchNoExecution ==
    (NoMatch /\ called # {})
        => /\ procs = <<>>
           /\ containers = <<>>
           /\ touched = {}
           /\ pc \in {"d_from_env", "d_locate", "l_locate", "Failed"}
           /\ pc = "Failed" => error \in {"IndexError", "DockerException"}

\* a dispatch that failed because files exist but none matches the prefix
C5_Witness ==
    /\ NoMatch
    /\ directory # <<>>
    /\ pc = "Failed"
    /\ error = "IndexError"
    /\ called # {}

(* C7: a result table with a non-numeric Score cell, wherever it sits, is  *)
(* never extracted successfully: its records are not returned, ranked or   *)
(* handed to the result writer.                                            *)
HasNonNumeric(col) == \E r \in 1..Len(col) : NonNumeric(col[r])

C7_MalformedScoreFailsExtraction ==
    /\ \A i \in 1..Len(written) : ~HasNonNumeric(tables[written[i].file])
    /\ ppc \in {"rank", "write"} => ~HasNonNumeric(tables[file_i])

\* the part of C7 the code does keep: a Score cell that is text other than
\* a missing-value token fails the extraction of its table
HasText(col) == \E r \in 1..Len(col) : col[r] = "text"

TextScoreFailsExtraction ==
    /\ \A i \in 1..Len(written) : ~HasText(tables[written[i].file])
    /\ ppc \in {"rank", "write"} => ~HasText(tables[file_i])

(* C8: in container mode a container that exits nonzero fails the batch:   *)
(* the dispatch never completes normally (Done) after a nonzero exit.      *)
C8_ContainerFailureIsFatal ==
    pc = "Done" => \A i \in 1..Len(containers) : containers[i].exit = 0

(* C9: when the container-mode dispatch has returned or raised, every      *)
(* container it started is released: stopped or removed.                   *)
C9_ContainersReleased ==
    Terminated
        => \A i \in 1..Len(containers) :
              containers[i].status = "exited" \/ containers[i].removed

(* C10: run_phen2gene enters at most one mode per call, the one named by   *)
(* config.run.environment: "docker" starts no local subprocess, "local"    *)
(* starts no container, and any other value enters neither mode and        *)
(* returns without an error.                                               *)
C10_OneModePerCall ==
    /\ Cardinality(called) <= 1
    /\ environment = "docker"
          => called \subseteq {"run_phen2gene_docker"} /\ procs = <<>>
    /\ environment = "local"
          => called \subseteq {"run_phen2gene_local"} /\ containers = <<>>
    /\ environment \notin {"docker", "local"}
          => /\ called = {}
             /\ procs = <<>>
             /\ containers = <<>>
             /\ error = "none"
             /\ pc \in {"check_docker", "check_local", "Done"}

\* a call with an environment that is neither "docker" nor "local" returned
C10_Witness ==
    /\ environment \notin {"docker", "local"}
    /\ pc = "Done"
    /\ directory # <<>>

====
